---- MODULE Spec2Model ----
(***************************************************************************)
(* Model of src/display.py: the cyberpunk status display.  main() calls    *)
(* update_display() forever; one call is one tick.  A tick advances the    *)
(* animation counters, draws the background, samples the two backends and  *)
(* the host metrics, draws the rest of the frame onto the one shared       *)
(* canvas and hands the canvas to the display with disp.image().           *)
(*                                                                         *)
(* Units.  A metric value is a percentage with one decimal (psutil rounds  *)
(* to one decimal), held here in tenths of a percent, 0..1000.  The        *)
(* progress value/100 that the draw functions receive is then the same     *)
(* integer read as thousandths.  Arc extents are in thousandths of a       *)
(* degree (360 * progress), arc starts in degrees.  Sleeps are in          *)
(* milliseconds.                                                           *)
(***************************************************************************)
EXTENDS Integers, Sequences, FiniteSets

VARIABLES
    pc,               \* where main() is: "loop", "body", "raised", "terminated"
    ip,               \* index of the next statement of update_display in Program
    i,                \* index of the metrics for-loop of update_display
    ticks,            \* number of update_display calls started
    animation_frame,  \* module global, line 64
    loading_angle,    \* module global, line 65
    wave_offset,      \* module global, line 66
    api_status,       \* local of update_display
    redis_status,     \* local of update_display
    metrics,          \* locals cpu, memory, disk of update_display
    canvas,           \* the shared image the draw calls mutate, line 38
    presented,        \* the pixels most recently handed to disp.image
    exc,              \* the exception propagating out of update_display
    last_sleep,       \* argument of the most recent time.sleep of main
    api_outcome,      \* what requests.get did inside get_api_status
    redis_outcome,    \* what Redis(...).ping() did inside get_redis_status
    tick_raised,      \* whether the tick that ended last raised
    composed,         \* number of the most recent tick that reached disp.image
    trace             \* statements of update_display executed in this tick

vars == <<pc, ip, i, ticks, animation_frame, loading_angle, wave_offset,
          api_status, redis_status, metrics, canvas, presented, exc,
          last_sleep, api_outcome, redis_outcome, tick_raised, composed, trace>>

----------------------------------------------------------------------------
(* Bounds of the model *)

MaxTicks == 3

MaxClockTicks == 125

----------------------------------------------------------------------------
(* Program constants *)

FRAME_PERIOD == 60

WAVE_STEP == 2

ANGLE_STEP == 6

FULL_CIRCLE == 360

\* disp.width of the ILI9341 driver object (240 x 320 panel)
width == 240

NORMAL_SLEEP_MS == 50

FALLBACK_SLEEP_MS == 1000

HTTP_OK == 200

BAR_X == 60

BAR_WIDTH == 150

BAR_HEIGHT == 6

CIRCLE_SIZE == 15

ROW_PITCH == 45

FIRST_ROW_Y == 155

GLOW_DIVISOR == 4

BAR_BG_DIVISOR == 8

NEON_PINK == <<255, 16, 240>>
NEON_BLUE == <<0, 240, 255>>
NEON_PURPLE == <<128, 0, 255>>
CYBER_GREEN == <<0, 255, 160>>
CYBER_RED == <<255, 0, 80>>
DARKER_BG == <<4, 4, 8>>

----------------------------------------------------------------------------
(* Outcomes of the external collaborators *)

\* What requests.get(url, timeout=5) can do: answer with a status code, raise
\* (connection refused, ...) or raise requests.Timeout after 5 s.
Response(code) == [kind |-> "response", status |-> code]

ApiOutcomes ==
    {Response(200), Response(204), Response(503),
     [kind |-> "exception", status |-> 0], [kind |-> "timeout", status |-> 0]}

\* What Redis(...).ping() can do: the reply was PONG, the reply was something
\* else, or the connection raised.
RedisOutcomes == {"pong", "no_pong", "exception"}

\* (cpu, memory, disk) readings of psutil, in tenths of a percent.
MetricsSamples == {<<420, 700, 150>>, <<0, 1000, 820>>}

\* Exceptions the drawing, psutil and display calls raise; all derive from
\* Exception.
ExceptionSubclasses == {"OSError", "ValueError"}

----------------------------------------------------------------------------
(* Pure functions *)

\* line 182
AdvanceFrameOffByOne(f) == (f + 1) % (FRAME_PERIOD + 1)
AdvanceFrame(f) == (f + 1) % FRAME_PERIOD

\* line 183
AdvanceWave(w) == (w + WAVE_STEP) % width

\* line 108
AdvanceAngle(a) == (a + ANGLE_STEP) % FULL_CIRCLE

\* lines 68-72: the hue, in degrees, that get_rainbow_color converts to RGB
RainbowHue(offset) == offset % FULL_CIRCLE

Clamp(c) == IF c < 0 THEN 0 ELSE IF c > 255 THEN 255 ELSE c

\* line 113: tuple(max(0, min(255, c // 4)) for c in color)
GlowColor(color) == [k \in 1..3 |-> Clamp(color[k] \div GLOW_DIVISOR)]

\* line 128: (color[0]//8, color[1]//8, color[2]//8)
BarBackgroundColor(color) == [k \in 1..3 |-> color[k] \div BAR_BG_DIVISOR]

\* lines 160-165
get_api_status_any_2xx(outcome) ==
    outcome.kind = "response" /\ outcome.status >= 200 /\ outcome.status < 300
get_api_status_no_try(outcome) ==
    outcome.kind # "response" \/ outcome.status = HTTP_OK
get_api_status(outcome) ==
    IF outcome.kind = "response" THEN outcome.status = HTTP_OK ELSE FALSE

\* lines 167-172
get_redis_status(outcome) ==
    IF outcome = "exception" THEN FALSE ELSE outcome = "pong"

\* The (width, value) pairs for which the binary64 product
\* width * (value / 100) lies just below the exact integer product, so that
\* int() of line 132 truncates to one less.  Found by evaluating line 132 in
\* binary64 for width 150 and every one-decimal value 0.0 .. 100.0:
\* 150 * (82.0 / 100) = 122.99999999999999.
FloatProductBelow == {<<150, 820>>}

\* line 132: int(width * progress), progress = value / 100 (line 236)
bar_width_of(w, progress) ==
    IF <<w, progress>> \in FloatProductBelow
    THEN (w * progress) \div 1000 - 1
    ELSE (w * progress) \div 1000

\* line 110: end_angle - start_angle = 360 * progress, in 1/1000 degree
ArcExtentFullRing(progress) == FULL_CIRCLE * 1000
ArcExtent(progress) == FULL_CIRCLE * progress

\* lines 105-120, after the global has been advanced to `angle`: the arcs
\* drawn, in drawing order.  An arc is the ring of radius `size` around the
\* centre, from `start` degrees over `extent` thousandths of a degree.
draw_loading_circle(size, progress, color, angle) ==
    << [size |-> size,     start |-> angle, extent |-> ArcExtent(progress),
        color |-> GlowColor(color), width |-> 4],
       [size |-> size + 1, start |-> angle, extent |-> ArcExtent(progress),
        color |-> GlowColor(color), width |-> 4],
       [size |-> size,     start |-> angle, extent |-> ArcExtent(progress),
        color |-> color, width |-> 3] >>

\* lines 122-136.  bg: the scanlines, each the line (x, y+r) .. (x+w, y+r),
\* both end points drawn.  fg: bar_width vertical lines at x+0 .. x+bar_width-1
\* (none when progress is 0: the `if progress > 0` of line 131).
draw_progress_bar(x, y, w, h, progress, color) ==
    [ x        |-> x,
      y        |-> y,
      progress |-> progress,
      bg       |-> [x1 |-> x, x2 |-> x + w,
                    rows |-> {r \in 0..(h - 1) : r % 2 = 0},
                    color |-> BarBackgroundColor(color)],
      fg       |-> IF progress > 0
                   THEN [drawn |-> TRUE, x1 |-> x,
                         bar_width |-> bar_width_of(w, progress), color |-> color]
                   ELSE [drawn |-> FALSE, x1 |-> x, bar_width |-> 0,
                         color |-> color] ]

\* line 153: the palette colour the status text and icon are pulsed from
StatusColor(status) == IF status THEN CYBER_GREEN ELSE CYBER_RED

\* lines 138-158
draw_status_box(tick, x, y, title, status, color, frame) ==
    [ tick |-> tick, x |-> x, y |-> y, title |-> title, chrome |-> color,
      pulse_frame |-> frame,
      status_color |-> StatusColor(status),
      status_text |-> IF status THEN "ONLINE" ELSE "OFFLINE" ]

\* lines 227-231: label and colour of the k-th metric
MetricLabel(k) == <<"CPU", "RAM", "DISK">>[k]
MetricColor(k) == <<NEON_BLUE, NEON_PURPLE, CYBER_GREEN>>[k]

\* lines 257-263: `except Exception` catches every subclass of Exception
CaughtOnlyOSError(kind) == kind = "OSError"
Caught(kind) == kind \in ExceptionSubclasses

\* lines 260 and 263: the sleep after a tick
SleepAfter(raised) == IF raised THEN FALLBACK_SLEEP_MS ELSE NORMAL_SLEEP_MS

\* lines 180-253: the statements of update_display, in program order.  The
\* entry "metrics_row" is the body of the for-loop of line 233, run once per
\* metric.
ProgramPresentsEarly ==
    << "advance", "background", "get_api_status", "get_redis_status",
       "get_system_info", "header", "status_api", "status_redis",
       "metrics_title", "disp_image", "metrics_row", "time" >>
ProgramRetriesProbe ==
    << "advance", "background", "get_api_status", "get_api_status",
       "get_redis_status", "get_system_info", "header", "status_api",
       "status_redis", "metrics_title", "metrics_row", "time", "disp_image" >>
Program ==
    << "advance", "background", "get_api_status", "get_redis_status",
       "get_system_info", "header", "status_api", "status_redis",
       "metrics_title", "metrics_row", "time", "disp_image" >>

\* Statements that can raise: the drawing calls, psutil and the display
\* transfer.  The two probes catch everything themselves (lines 164, 171).
RaisingSteps ==
    {"background", "get_system_info", "header", "status_api", "metrics_row",
     "time", "disp_image"}

DrawSteps ==
    {"background", "header", "status_api", "status_redis", "metrics_title",
     "metrics_row", "time"}

SampleSteps == {"get_api_status", "get_redis_status", "get_system_info"}

----------------------------------------------------------------------------
(* State *)

Blank == [tick |-> 0]

\* line 38: Image.new("RGB", (width, height)), all black
BlankImage ==
    [ bg |-> Blank, header |-> Blank, api_box |-> Blank, redis_box |-> Blank,
      title |-> Blank, rows |-> <<Blank, Blank, Blank>>, time |-> Blank ]

NoOutcome == [kind |-> "none", status |-> 0]

NoMetrics == <<0, 0, 0>>

Init ==
    /\ pc = "loop"
    /\ ip = 0
    /\ i = 0
    /\ ticks = 0
    /\ animation_frame = 0
    /\ loading_angle = 0
    /\ wave_offset = 0
    /\ api_status = FALSE
    /\ redis_status = FALSE
    /\ metrics = NoMetrics
    /\ canvas = BlankImage
    /\ presented = BlankImage
    /\ exc = "none"
    /\ last_sleep = 0
    /\ api_outcome = NoOutcome
    /\ redis_outcome = "none"
    /\ tick_raised = FALSE
    /\ composed = 0
    /\ trace = <<>>

----------------------------------------------------------------------------
(* main(), lines 255-263, and update_display(), lines 180-253 *)

At(label) == pc = "body" /\ ip \in 1..Len(Program) /\ Program[ip] = label

\* the statement at ip ran to its end
Done(label) ==
    /\ ip' = ip + 1
    /\ trace' = Append(trace, label)

\* line 259: main calls update_display
StartTick(max) ==
    /\ pc = "loop"
    /\ ticks < max
    /\ pc' = "body"
    /\ ip' = 1
    /\ i' = 0
    /\ ticks' = ticks + 1
    /\ trace' = <<>>
    /\ UNCHANGED <<animation_frame, loading_angle, wave_offset, api_status,
                   redis_status, metrics, canvas, presented, exc, last_sleep,
                   api_outcome, redis_outcome, tick_raised, composed>>

\* update_display is left, by return or by an exception: its locals are gone
LocalsDropped ==
    /\ api_status' = FALSE
    /\ redis_status' = FALSE
    /\ metrics' = NoMetrics
    /\ api_outcome' = NoOutcome
    /\ redis_outcome' = "none"

\* lines 181-183
Advance ==
    /\ At("advance")
    /\ animation_frame' = AdvanceFrame(animation_frame)
    /\ wave_offset' = AdvanceWave(wave_offset)
    /\ Done("advance")
    /\ UNCHANGED <<pc, i, ticks, loading_angle, api_status, redis_status,
                   metrics, canvas, presented, exc, last_sleep, api_outcome,
                   redis_outcome, tick_raised, composed>>

\* lines 185-200: the wave background and the grid cover the whole image;
\* their colours depend on wave_offset and animation_frame only
DrawBackground ==
    /\ At("background")
    /\ canvas' = [canvas EXCEPT !.bg =
                     [tick |-> ticks, frame |-> animation_frame,
                      wave |-> wave_offset]]
    /\ Done("background")
    /\ UNCHANGED <<pc, i, ticks, animation_frame, loading_angle, wave_offset,
                   api_status, redis_status, metrics, presented, exc,
                   last_sleep, api_outcome, redis_outcome, tick_raised,
                   composed>>

\* line 203
GetApiStatus(outcomes) ==
    /\ At("get_api_status")
    /\ \E o \in outcomes :
          /\ api_outcome' = o
          /\ api_status' = get_api_status(o)
    /\ Done("get_api_status")
    /\ UNCHANGED <<pc, i, ticks, animation_frame, loading_angle, wave_offset,
                   redis_status, metrics, canvas, presented, exc, last_sleep,
                   redis_outcome, tick_raised, composed>>

\* line 204
GetRedisStatus(outcomes) ==
    /\ At("get_redis_status")
    /\ \E o \in outcomes :
          /\ redis_outcome' = o
          /\ redis_status' = get_redis_status(o)
    /\ Done("get_redis_status")
    /\ UNCHANGED <<pc, i, ticks, animation_frame, loading_angle, wave_offset,
                   api_status, metrics, canvas, presented, exc, last_sleep,
                   api_outcome, tick_raised, composed>>

\* line 205; the sampling is over, and what the probes saw is forgotten: only
\* the two flags and the three readings go on to the draw calls
GetSystemInfo(samples) ==
    /\ At("get_system_info")
    /\ \E m \in samples : metrics' = m
    /\ api_outcome' = NoOutcome
    /\ redis_outcome' = "none"
    /\ Done("get_system_info")
    /\ UNCHANGED <<pc, i, ticks, animation_frame, loading_angle, wave_offset,
                   api_status, redis_status, canvas, presented, exc,
                   last_sleep, tick_raised, composed>>

\* lines 207-213
DrawHeader ==
    /\ At("header")
    /\ canvas' = [canvas EXCEPT !.header =
                     [tick |-> ticks,
                      line_hue |-> RainbowHue(animation_frame * 2),
                      title_hue |-> RainbowHue(animation_frame * 2 + 180)]]
    /\ Done("header")
    /\ UNCHANGED <<pc, i, ticks, animation_frame, loading_angle, wave_offset,
                   api_status, redis_status, metrics, presented, exc,
                   last_sleep, api_outcome, redis_outcome, tick_raised,
                   composed>>

\* line 216
DrawApiStatusBox ==
    /\ At("status_api")
    /\ canvas' = [canvas EXCEPT !.api_box =
                     draw_status_box(ticks, 10, 60, "API Status", api_status,
                                     NEON_BLUE, animation_frame)]
    /\ Done("status_api")
    /\ UNCHANGED <<pc, i, ticks, animation_frame, loading_angle, wave_offset,
                   api_status, redis_status, metrics, presented, exc,
                   last_sleep, api_outcome, redis_outcome, tick_raised,
                   composed>>

\* line 217
DrawRedisStatusBox ==
    /\ At("status_redis")
    /\ canvas' = [canvas EXCEPT !.redis_box =
                     draw_status_box(ticks, 160, 60, "Redis", redis_status,
                                     NEON_PURPLE, animation_frame)]
    /\ Done("status_redis")
    /\ UNCHANGED <<pc, i, ticks, animation_frame, loading_angle, wave_offset,
                   api_status, redis_status, metrics, presented, exc,
                   last_sleep, api_outcome, redis_outcome, tick_raised,
                   composed>>

\* lines 219-223
DrawMetricsTitle ==
    /\ At("metrics_title")
    /\ canvas' = [canvas EXCEPT !.title =
                     [tick |-> ticks, text |-> "SYSTEM METRICS",
                      color |-> NEON_PINK]]
    /\ Done("metrics_title")
    /\ UNCHANGED <<pc, i, ticks, animation_frame, loading_angle, wave_offset,
                   api_status, redis_status, metrics, presented, exc,
                   last_sleep, api_outcome, redis_outcome, tick_raised,
                   composed>>

\* lines 233-243: one pass of the for-loop, for the metric number i + 1
DrawMetricRow ==
    /\ At("metrics_row")
    /\ i < 3
    /\ LET k == i + 1
           y == FIRST_ROW_Y + i * ROW_PITCH
           angle == AdvanceAngle(loading_angle)
       IN  /\ loading_angle' = angle
           /\ canvas' = [canvas EXCEPT !.rows[k] =
                 [ tick  |-> ticks,
                   label |-> MetricLabel(k),
                   y     |-> y,
                   value |-> metrics[k],
                   arcs  |-> draw_loading_circle(CIRCLE_SIZE, metrics[k],
                                                 MetricColor(k), angle),
                   bar   |-> draw_progress_bar(BAR_X, y + 20, BAR_WIDTH,
                                               BAR_HEIGHT, metrics[k],
                                               MetricColor(k)) ]]
    /\ i' = i + 1
    /\ trace' = Append(trace, "metrics_row")
    /\ ip' = IF i + 1 = 3 THEN ip + 1 ELSE ip
    /\ UNCHANGED <<pc, ticks, animation_frame, wave_offset, api_status,
                   redis_status, metrics, presented, exc, last_sleep,
                   api_outcome, redis_outcome, tick_raised, composed>>

\* lines 245-250: the last draw call of the frame
DrawTime ==
    /\ At("time")
    /\ canvas' = [canvas EXCEPT !.time =
                     [tick |-> ticks, hue |-> RainbowHue(animation_frame * 3)]]
    /\ composed' = ticks
    /\ Done("time")
    /\ UNCHANGED <<pc, i, ticks, animation_frame, loading_angle, wave_offset,
                   api_status, redis_status, metrics, presented, exc,
                   last_sleep, api_outcome, redis_outcome, tick_raised>>

\* line 253: disp.image(image) is handed the canvas and returns
DispImage ==
    /\ At("disp_image")
    /\ presented' = canvas
    /\ Done("disp_image")
    /\ UNCHANGED <<pc, i, ticks, animation_frame, loading_angle, wave_offset,
                   api_status, redis_status, metrics, canvas, exc, last_sleep,
                   api_outcome, redis_outcome, tick_raised, composed>>

\* line 253: disp.image(image) is handed the canvas and the transfer raises
DispImageRaises ==
    /\ At("disp_image")
    /\ presented' = canvas
    /\ \E e \in ExceptionSubclasses : exc' = e
    /\ pc' = "raised"
    /\ trace' = Append(trace, "disp_image")
    /\ UNCHANGED <<ip, i, ticks, animation_frame, loading_angle, wave_offset,
                   api_status, redis_status, metrics, canvas, last_sleep,
                   api_outcome, redis_outcome, tick_raised, composed>>

\* a draw call or psutil raises before the statement at ip has changed anything
Raise(steps) ==
    /\ pc = "body"
    /\ ip \in 1..Len(Program)
    /\ Program[ip] \in (steps \cap RaisingSteps) \ {"disp_image"}
    /\ \E e \in ExceptionSubclasses : exc' = e
    /\ pc' = "raised"
    /\ UNCHANGED <<ip, i, ticks, animation_frame, loading_angle, wave_offset,
                   api_status, redis_status, metrics, canvas, presented,
                   last_sleep, api_outcome, redis_outcome, tick_raised,
                   composed, trace>>

\* lines 259-260: update_display returned; time.sleep(0.05)
Return ==
    /\ pc = "body"
    /\ ip = Len(Program) + 1
    /\ last_sleep' = SleepAfter(FALSE)
    /\ tick_raised' = FALSE
    /\ pc' = "loop"
    /\ LocalsDropped
    /\ UNCHANGED <<ip, i, ticks, animation_frame, loading_angle, wave_offset,
                   canvas, presented, exc, composed, trace>>

\* lines 261-263: the except clause; an exception it does not catch ends main
Handle ==
    /\ pc = "raised"
    /\ IF Caught(exc)
       THEN /\ last_sleep' = SleepAfter(TRUE)
            /\ tick_raised' = TRUE
            /\ pc' = "loop"
            /\ exc' = "none"
       ELSE /\ pc' = "terminated"
            /\ UNCHANGED <<last_sleep, tick_raised, exc>>
    /\ LocalsDropped
    /\ UNCHANGED <<ip, i, ticks, animation_frame, loading_angle, wave_offset,
                   canvas, presented, composed, trace>>

Next ==
    \/ StartTick(MaxTicks)
    \/ Advance
    \/ DrawBackground
    \/ GetApiStatus(ApiOutcomes)
    \/ GetRedisStatus(RedisOutcomes)
    \/ GetSystemInfo(MetricsSamples)
    \/ DrawHeader
    \/ DrawApiStatusBox
    \/ DrawRedisStatusBox
    \/ DrawMetricsTitle
    \/ DrawMetricRow
    \/ DrawTime
    \/ DispImage
    \/ DispImageRaises
    \/ Raise(RaisingSteps)
    \/ Return
    \/ Handle

Spec == Init /\ [][Next]_vars

\* The same program over many ticks: one outcome per collaborator, and the
\* display transfer as the statement that may raise.
NextClock ==
    \/ StartTick(MaxClockTicks)
    \/ Advance
    \/ DrawBackground
    \/ GetApiStatus({Response(200)})
    \/ GetRedisStatus({"pong"})
    \/ GetSystemInfo({<<420, 700, 150>>})
    \/ DrawHeader
    \/ DrawApiStatusBox
    \/ DrawRedisStatusBox
    \/ DrawMetricsTitle
    \/ DrawMetricRow
    \/ DrawTime
    \/ DispImage
    \/ DispImageRaises
    \/ Return
    \/ Handle

SpecClock == Init /\ [][NextClock]_vars

----------------------------------------------------------------------------
(* Properties *)

\* update_display is running or has just raised: its locals are alive
InTick == pc \in {"body", "raised"}

\* the probe has returned and the sampling of the tick is not over yet
ApiProbed == InTick /\ api_outcome # NoOutcome

RedisProbed == InTick /\ redis_outcome # "none"

Ran(label) == \E j \in 1..Len(trace) : trace[j] = label

Count(label) == Cardinality({j \in 1..Len(trace) : trace[j] = label})

\* every region of img was drawn by tick k
FrameOf(img, k) ==
    /\ img.bg.tick = k
    /\ img.header.tick = k
    /\ img.api_box.tick = k
    /\ img.redis_box.tick = k
    /\ img.title.tick = k
    /\ \A r \in 1..3 : img.rows[r].tick = k
    /\ img.time.tick = k

DrawnRows == {r \in 1..3 : canvas.rows[r].tick > 0}

BgColumns(bar) == bar.bg.x1 .. bar.bg.x2

FgColumns(bar) ==
    IF bar.fg.drawn
    THEN {bar.fg.x1 + c : c \in 0..(bar.fg.bar_width - 1)}
    ELSE {}

\* C1: an exception raised inside a tick never ends main's loop; after a tick
\* that raised the loop has slept the fallback interval (1 s) and after a tick
\* that completed it has slept the normal cadence (0.05 s), and in both cases
\* main is back at the head of the loop, where the next tick starts.
C1_LoopSurvivesFailingTick ==
    /\ pc # "terminated"
    /\ (pc = "loop" /\ ticks > 0 /\ tick_raised) =>
           (last_sleep = FALLBACK_SLEEP_MS /\ last_sleep # NORMAL_SLEEP_MS)
    /\ (pc = "loop" /\ ticks > 0 /\ ~tick_raised) =>
           (last_sleep = NORMAL_SLEEP_MS /\ last_sleep # FALLBACK_SLEEP_MS)
    /\ (pc = "loop" /\ ticks < MaxTicks) => ENABLED StartTick(MaxTicks)

\* a tick raised, the loop slept 1 s, and the next tick is running
C1_Witness ==
    /\ pc = "body"
    /\ ticks >= 2
    /\ tick_raised
    /\ last_sleep = FALLBACK_SLEEP_MS

\* C2: the probes never raise, each returns a boolean, the API flag is false
\* when the API probe raised or timed out, the cache flag is false when the
\* ping raised, each flag follows its own probe's outcome of this tick, and
\* both probes have run whatever the other one did.
C2_SamplingNeverRaises ==
    /\ pc = "raised" => Program[ip] \notin {"get_api_status", "get_redis_status"}
    /\ (InTick /\ Ran("get_api_status") /\ ~Ran("get_system_info")) => ApiProbed
    /\ (InTick /\ Ran("get_redis_status") /\ ~Ran("get_system_info")) => RedisProbed
    /\ ApiProbed =>
           /\ api_status \in BOOLEAN
           /\ api_outcome \in ApiOutcomes
           /\ api_outcome.kind \in {"exception", "timeout"} => api_status = FALSE
           /\ api_status => api_outcome.kind = "response"
    /\ RedisProbed =>
           /\ redis_status \in BOOLEAN
           /\ redis_outcome \in RedisOutcomes
           /\ redis_outcome = "exception" => redis_status = FALSE
           /\ redis_status = (redis_outcome = "pong")
    /\ (InTick /\ Ran("get_system_info")) =>
           (Count("get_api_status") = 1 /\ Count("get_redis_status") = 1)

\* the API probe timed out, and the cache probe still ran and reports up
C2_Witness ==
    /\ ApiProbed
    /\ RedisProbed
    /\ api_outcome.kind = "timeout"
    /\ api_status = FALSE
    /\ redis_outcome = "pong"
    /\ redis_status = TRUE

\* C3: once a tick has advanced the counters, animation_frame is the number
\* of ticks started mod 60 and wave_offset is twice that number mod the canvas
\* width, whichever of the ticks raised.
C3_FrameAndWaveFollowTickCount ==
    (pc = "body" /\ ip = 1) \/
    (/\ animation_frame = ticks % FRAME_PERIOD
     /\ wave_offset = (WAVE_STEP * ticks) % width)

\* both counters have wrapped around and the tick that wrapped them raised
C3_Witness ==
    /\ ticks = 120
    /\ pc = "loop"
    /\ tick_raised
    /\ animation_frame = 0
    /\ wave_offset = 0

\* C4: between ticks loading_angle is 6 times the number of ticks started,
\* mod 360 (one advance of 6 per tick, whether the tick raised or not).
C4_SweepAngleOncePerTick ==
    pc = "loop" => loading_angle = (ANGLE_STEP * ticks) % FULL_CIRCLE

C6_ApiUpIffAny2xx ==
    ApiProbed =>
        (api_status <=> (/\ api_outcome.kind = "response"
                         /\ api_outcome.status \in 200..299))

\* C6 amended: the API flag is true exactly for the status 200 received within
\* the timeout; every other status (the other 2xx included), exception or
\* timeout gives false.
C6_ApiUpIffStatus200 ==
    ApiProbed =>
        (api_status <=> (/\ api_outcome.kind = "response"
                         /\ api_outcome.status = 200))

\* the endpoint answered 204 and the flag is false
C6_Witness ==
    /\ ApiProbed
    /\ api_outcome = Response(204)
    /\ api_status = FALSE

\* C7: when the frame is composed, each status box has the success colour if
\* its flag is true and the error colour if not, the rows are CPU, RAM, DISK
\* in that order, arc and bar of a row have the progress pct/100, and the
\* filled bar width is floor(bar_width * pct/100).
C7_FrameReflectsSnapshot ==
    (pc = "body" /\ ip \in 1..Len(Program) /\ Program[ip] = "disp_image") =>
        /\ canvas.api_box.status_color =
               (IF api_status THEN CYBER_GREEN ELSE CYBER_RED)
        /\ canvas.redis_box.status_color =
               (IF redis_status THEN CYBER_GREEN ELSE CYBER_RED)
        /\ <<canvas.rows[1].label, canvas.rows[2].label, canvas.rows[3].label>>
               = <<"CPU", "RAM", "DISK">>
        /\ canvas.rows[1].y < canvas.rows[2].y
        /\ canvas.rows[2].y < canvas.rows[3].y
        /\ \A r \in 1..3 :
              /\ canvas.rows[r].arcs[3].extent = FULL_CIRCLE * metrics[r]
              /\ canvas.rows[r].bar.progress = metrics[r]
              /\ canvas.rows[r].bar.fg.bar_width =
                     (BAR_WIDTH * metrics[r]) \div 1000

\* C8 as stated: advance, sample, compose, present, in that order: no draw
\* call before the tick's sampling has finished, each probe at most once, the
\* display call last and at most once.
C8_NoDrawBeforeSampling ==
    /\ \A j \in 1..Len(trace) :
          trace[j] \in DrawSteps =>
              \E m \in 1..(j - 1) : trace[m] = "get_system_info"
    /\ Count("get_api_status") <= 1
    /\ Count("get_redis_status") <= 1
    /\ Count("disp_image") <= 1
    /\ \A j \in 1..Len(trace) : trace[j] = "disp_image" => j = Len(trace)

\* C8 amended: the counters are advanced first, the wave background and grid
\* are drawn next (before sampling), then the two probes and the metrics read
\* run, and every other draw call comes after the sampling has finished; each
\* probe runs at most once per tick, and the display call is the last step of
\* the tick and happens at most once.
C8_OnlyBackgroundBeforeSampling ==
    /\ Len(trace) >= 1 => trace[1] = "advance"
    /\ \A j \in 1..Len(trace) :
          /\ trace[j] = "advance" => j = 1
          /\ trace[j] = "background" => j = 2
          /\ trace[j] \in SampleSteps => j \in 3..5
          /\ trace[j] \in DrawSteps \ {"background"} =>
                /\ \E m \in 1..(j - 1) : trace[m] = "get_api_status"
                /\ \E m \in 1..(j - 1) : trace[m] = "get_redis_status"
                /\ \E m \in 1..(j - 1) : trace[m] = "get_system_info"
          /\ trace[j] = "disp_image" =>
                (j = Len(trace) /\ \E m \in 1..(j - 1) : trace[m] = "time")
    /\ Count("get_api_status") <= 1
    /\ Count("get_redis_status") <= 1
    /\ Count("get_system_info") <= 1
    /\ Count("disp_image") <= 1

\* a tick ran to its end: the display call was its last step
C8_Witness ==
    /\ pc = "loop"
    /\ ~tick_raised
    /\ Len(trace) > 0
    /\ trace[Len(trace)] = "disp_image"
    /\ trace[2] = "background"
    /\ trace[3] = "get_api_status"

\* C9 as stated: every loading circle has a background ring over the full 360
\* degrees in the glow colour and a foreground arc from the sweep angle over
\* progress * 360 degrees; at progress 0 the full ring is there and no
\* foreground arc of non-zero extent.
C9_FullBackgroundRing ==
    \A r \in DrawnRows :
        LET row == canvas.rows[r] IN
        /\ \E a \in 1..Len(row.arcs) :
              /\ row.arcs[a].color = GlowColor(MetricColor(r))
              /\ row.arcs[a].extent = FULL_CIRCLE * 1000
        /\ \E a \in 1..Len(row.arcs) :
              /\ row.arcs[a].color = MetricColor(r)
              /\ row.arcs[a].extent = FULL_CIRCLE * row.value

\* C9 amended: draw_loading_circle draws two glow arcs (radius size and
\* size + 1, a quarter of the colour) and then the foreground arc in the full
\* colour; all three start at the sweep angle and span progress * 360
\* degrees, so the glow is a full ring only at progress 1, and at progress 0
\* all three arcs have extent zero.
C9_GlowArcsSpanProgress ==
    /\ \A r \in DrawnRows :
          LET row == canvas.rows[r] IN
          /\ Len(row.arcs) = 3
          /\ \A a \in 1..3 :
                /\ row.arcs[a].extent = FULL_CIRCLE * row.value
                /\ row.arcs[a].start = row.arcs[3].start
                /\ row.arcs[a].start \in 0..(FULL_CIRCLE - 1)
                /\ row.arcs[a].extent = FULL_CIRCLE * 1000 <=> row.value = 1000
                /\ row.value = 0 => row.arcs[a].extent = 0
          /\ row.arcs[1].color = GlowColor(MetricColor(r))
          /\ row.arcs[2].color = GlowColor(MetricColor(r))
          /\ row.arcs[3].color = MetricColor(r)
          /\ <<row.arcs[1].size, row.arcs[2].size, row.arcs[3].size>> =
                 <<CIRCLE_SIZE, CIRCLE_SIZE + 1, CIRCLE_SIZE>>
    /\ (pc = "body" /\ i \in 1..3 /\ canvas.rows[i].tick = ticks) =>
           canvas.rows[i].arcs[3].start = loading_angle

\* a circle was drawn with progress 0: its glow arcs have no extent
C9_Witness ==
    \E r \in DrawnRows :
        /\ canvas.rows[r].value = 0
        /\ canvas.rows[r].arcs[1].extent = 0
        /\ canvas.rows[r].arcs[1].color = GlowColor(MetricColor(r))

\* C10: a bar drawn with progress 0 has no foreground column, and a bar drawn
\* with progress 1 has a foreground column on every pixel column the
\* background covers, x .. x + width.
C10_FullBarCoversBackground ==
    \A r \in DrawnRows :
        LET bar == canvas.rows[r].bar IN
        /\ bar.progress = 0 => FgColumns(bar) = {}
        /\ bar.progress = 1000 => BgColumns(bar) \subseteq FgColumns(bar)

====
